---- MODULE Spec2Model ----
(***************************************************************************)
(* Authorization core of fire-pmaas: the role/permission model             *)
(* (pkg/models), the role store (user_roles, user_sessions), the request   *)
(* authenticators LoadUserFromToken / SessionAuth, the sync-on-login       *)
(* assignRolesFromKeycloak and the guards RequirePermission / RequireRole  *)
(* / RequireAnyRole (pkg/middleware).                                      *)
(***************************************************************************)
EXTENDS Integers, Sequences, FiniteSets, TLC

VARIABLES
    users,          \* table users: set of rows [id, keycloak_id, status]
    user_roles,     \* table user_roles: number of rows per <<user_id, role_id>>
    user_sessions,  \* table user_sessions: set of rows [session_token, user_id, expires_at]
    now,            \* the store's clock, NOW()
    req,            \* per worker: the request being served and the handler's locals
    ctxUser,        \* guard pipeline: the user attached to the request context
    chain,          \* guard pipeline: the guards stacked in front of the handler
    pos,            \* guard pipeline: index of the middleware that runs next
    status,         \* guard pipeline: HTTP status written (0: nothing written yet)
    served,         \* guard pipeline: how often the final handler was invoked
    ran,            \* guard pipeline: the guards that have run, with their outcome
    request,        \* guard pipeline: the routed request [method, path, idToken, sessionToken]
    sent            \* guard pipeline: the responses the client has received before

vars == <<users, user_roles, user_sessions, now, req,
          ctxUser, chain, pos, status, served, ran, request, sent>>

storeVars == <<users, user_roles, user_sessions, now, req>>
guardVars == <<ctxUser, chain, pos, status, served, ran, request, sent>>

(***************************************************************************)
(* Strings (Go package strings)                                            *)
(***************************************************************************)
HasPrefix(s, prefix) ==
    /\ Len(s) >= Len(prefix)
    /\ SubSeq(s, 1, Len(prefix)) = prefix

HasSuffix(s, suffix) ==
    /\ Len(s) >= Len(suffix)
    /\ SubSeq(s, Len(s) - Len(suffix) + 1, Len(s)) = suffix

TrimSuffix(s, suffix) ==
    IF HasSuffix(s, suffix) THEN SubSeq(s, 1, Len(s) - Len(suffix)) ELSE s

(***************************************************************************)
(* Seeded roles (migration 000002): id, name, permissions                  *)
(***************************************************************************)
RoleNames == {"admin", "property_manager", "tenant", "viewer"}

\* roles.id is SERIAL: the rows get 1..4 in the order of the INSERT
RoleIdOf ==
    [n \in RoleNames |->
        CASE n = "admin" -> 1
          [] n = "property_manager" -> 2
          [] n = "tenant" -> 3
          [] n = "viewer" -> 4]

RoleIds == {RoleIdOf[n] : n \in RoleNames}

RoleNameOf == [i \in RoleIds |-> CHOOSE n \in RoleNames : RoleIdOf[n] = i]

\* the role names in ORDER BY r.name order
RolesByName == <<"admin", "property_manager", "tenant", "viewer">>

SeedPermissions ==
    [n \in RoleNames |->
        CASE n = "admin" ->
               <<"users.create", "users.read", "users.update", "users.delete",
                 "properties.create", "properties.read", "properties.update", "properties.delete",
                 "tenants.create", "tenants.read", "tenants.update", "tenants.delete",
                 "leases.create", "leases.read", "leases.update", "leases.delete",
                 "payments.create", "payments.read", "payments.update", "payments.delete",
                 "maintenance.create", "maintenance.read", "maintenance.update", "maintenance.delete",
                 "roles.manage", "system.settings">>
          [] n = "property_manager" ->
               <<"properties.create", "properties.read", "properties.update", "properties.delete",
                 "tenants.create", "tenants.read", "tenants.update", "tenants.delete",
                 "leases.create", "leases.read", "leases.update", "leases.delete",
                 "payments.read", "payments.update",
                 "maintenance.create", "maintenance.read", "maintenance.update", "maintenance.delete">>
          [] n = "tenant" ->
               <<"profile.read", "profile.update",
                 "lease.read.own", "payments.read.own",
                 "maintenance.create.own", "maintenance.read.own">>
          [] n = "viewer" ->
               <<"properties.read", "tenants.read", "maintenance.read">>]

\* a row of table roles as the Role struct the models package scans it into
RoleRecord(n) == [ID |-> RoleIdOf[n], Name |-> n, Permissions |-> SeedPermissions[n]]

(***************************************************************************)
(* Permission model: User.HasPermission, User.HasRole                      *)
(***************************************************************************)
NoUser == [none |-> TRUE]

HasPermission(u, permission) ==
    \E i \in 1..Len(u.Roles) :
        \E j \in 1..Len(u.Roles[i].Permissions) :
            LET perm == u.Roles[i].Permissions[j] IN
            \/ perm = permission
            \/ /\ HasSuffix(perm, ".*")
               /\ HasPrefix(permission, TrimSuffix(perm, ".*"))

HasRole(u, roleName) ==
    \E i \in 1..Len(u.Roles) : u.Roles[i].Name = roleName

(***************************************************************************)
(* Inputs of the guard pipeline                                            *)
(***************************************************************************)
MaxPermLen == 3
MaxRoleArgs == 2

PermAlphabet == {"u", ".", "*"}

RECURSIVE StringsUpTo(_)
StringsUpTo(n) ==
    IF n = 0 THEN {""}
    ELSE LET S == StringsUpTo(n - 1) IN S \cup {s \o c : s \in S, c \in PermAlphabet}

\* permission strings asked of the guards and of HasPermission
PermissionArgs ==
    {"users.read", "users.create", "users.delete", "properties.create",
     "properties.read", "properties.delete", "admin.users.delete",
     "users", "userspace.read", "users.*"} \cup StringsUpTo(MaxPermLen)

\* role names handed to RequireRole / RequireAnyRole
RoleArgs == RoleNames \cup {"Admin", "view"}

RECURSIVE SeqsUpTo(_, _)
SeqsUpTo(S, n) ==
    IF n = 0 THEN {<<>>}
    ELSE LET T == SeqsUpTo(S, n - 1) IN T \cup {Append(t, x) : t \in T, x \in S}

\* GetUserRoles: the roles of the assigned pairs, one per row, ORDER BY r.name
RECURSIVE RolesOrdered(_, _)
RolesOrdered(count, i) ==
    IF i > Len(RolesByName) THEN <<>>
    ELSE LET n == RolesByName[i]
             k == count[RoleIdOf[n]]
         IN [j \in 1..k |-> RoleRecord(n)] \o RolesOrdered(count, i + 1)

\* Role values the tests attach by hand (auth_test.go, simple_model_test.go)
TestRoles ==
    { [ID |-> 0, Name |-> "admin", Permissions |-> <<"users.*">>],
      [ID |-> 0, Name |-> "admin", Permissions |-> <<"users.*", "properties.read">>],
      [ID |-> 0, Name |-> "viewer", Permissions |-> <<"properties.read">>] }
    \cup { [ID |-> 0, Name |-> "custom", Permissions |-> <<s>>] : s \in StringsUpTo(MaxPermLen) }

\* the users a request context can carry
CtxUsers ==
    {NoUser}
    \cup { [ID |-> 1, Roles |-> RolesOrdered([i \in RoleIds |-> IF RoleNameOf[i] \in S THEN 1 ELSE 0], 1)] :
             S \in SUBSET RoleNames }
    \cup { [ID |-> 1, Roles |-> <<r>>] : r \in TestRoles }

Guards ==
    { [kind |-> "RequirePermission", permission |-> p] : p \in PermissionArgs }
    \cup { [kind |-> "RequireRole", roleName |-> r] : r \in RoleArgs }
    \cup { [kind |-> "RequireAnyRole", roleNames |-> rs] : rs \in SeqsUpTo(RoleArgs, MaxRoleArgs) }

\* the guards the routes register (api.go RegisterRoutes, RegisterUserRoutes)
RouteGuards ==
    { [kind |-> "RequireAnyRole", roleNames |-> <<"admin", "property_manager", "viewer">>],
      [kind |-> "RequireAnyRole", roleNames |-> <<"admin", "property_manager", "tenant">>],
      [kind |-> "RequireAnyRole", roleNames |-> <<"admin", "property_manager">>] }

Chains == { <<g>> : g \in Guards \cup RouteGuards }

(***************************************************************************)
(* Access decision middleware                                              *)
(***************************************************************************)
StatusUnauthorized == 401
StatusForbidden == 403
StatusOK == 200
PassToNext == 0

\* a request that came through no router (the guard is called directly)
NoRequest == [method |-> "", path |-> "", idToken |-> "", sessionToken |-> ""]

GetUserFromContext == [user |-> ctxUser, ok |-> ctxUser # NoUser]

RequirePermissionForbidsAnonymous(permission) ==
    IF ctxUser = NoUser \/ ~HasPermission(ctxUser, permission) THEN StatusForbidden
    ELSE PassToNext

\* what the guard does with the request: a status it writes, or PassToNext
RequirePermissionOutcome(permission) ==
    LET got == GetUserFromContext IN
    IF ~got.ok THEN StatusUnauthorized
    ELSE IF ~HasPermission(got.user, permission) THEN StatusForbidden
    ELSE PassToNext

RequireRoleByPrefix(roleName) ==
    IF ctxUser = NoUser THEN StatusUnauthorized
    ELSE IF ~\E i \in 1..Len(ctxUser.Roles) : HasPrefix(ctxUser.Roles[i].Name, roleName)
        THEN StatusForbidden
    ELSE PassToNext

RequireRoleFromStore(roleName) ==
    IF ctxUser = NoUser THEN StatusUnauthorized
    ELSE IF user_roles[<<ctxUser.ID, RoleIdOf[roleName]>>] = 0 THEN StatusForbidden
    ELSE PassToNext

RequireRoleOutcome(roleName) ==
    LET got == GetUserFromContext IN
    IF ~got.ok THEN StatusUnauthorized
    ELSE IF ~HasRole(got.user, roleName) THEN StatusForbidden
    ELSE PassToNext

RequireAllRoles(roleNames) ==
    IF ctxUser = NoUser THEN StatusUnauthorized
    ELSE IF ~\A i \in 1..Len(roleNames) : HasRole(ctxUser, roleNames[i]) THEN StatusForbidden
    ELSE PassToNext

RequireAnyRoleOutcome(roleNames) ==
    LET got == GetUserFromContext
        hasRole == \E i \in 1..Len(roleNames) : HasRole(got.user, roleNames[i])
    IN
    IF ~got.ok THEN StatusUnauthorized
    ELSE IF ~hasRole THEN StatusForbidden
    ELSE PassToNext

RespondAndContinue(outcome) ==
    /\ ran' = Append(ran, [guard |-> chain[pos], outcome |-> outcome])
    /\ pos' = pos + 1
    /\ IF outcome = PassToNext THEN UNCHANGED status ELSE status' = outcome
    /\ UNCHANGED <<ctxUser, chain, served, request, sent>>
    /\ UNCHANGED storeVars

\* http.Error(w, ..., code); return   or   next.ServeHTTP(w, r)
Respond(outcome) ==
    /\ ran' = Append(ran, [guard |-> chain[pos], outcome |-> outcome])
    /\ IF outcome = PassToNext
         THEN pos' = pos + 1 /\ UNCHANGED status
         ELSE pos' = Len(chain) + 2 /\ status' = outcome
    /\ UNCHANGED <<ctxUser, chain, served, request, sent>>
    /\ UNCHANGED storeVars

RequirePermission ==
    /\ pos \in 1..Len(chain)
    /\ chain[pos].kind = "RequirePermission"
    /\ Respond(RequirePermissionOutcome(chain[pos].permission))

RequireRole ==
    /\ pos \in 1..Len(chain)
    /\ chain[pos].kind = "RequireRole"
    /\ Respond(RequireRoleOutcome(chain[pos].roleName))

RequireAnyRole ==
    /\ pos \in 1..Len(chain)
    /\ chain[pos].kind = "RequireAnyRole"
    /\ Respond(RequireAnyRoleOutcome(chain[pos].roleNames))

\* the handler behind the guards (the tests' handler writes 200)
Handler ==
    /\ pos = Len(chain) + 1
    /\ status' = StatusOK
    /\ served' = served + 1
    /\ pos' = pos + 1
    /\ UNCHANGED <<ctxUser, chain, ran, request, sent>>
    /\ UNCHANGED storeVars

(***************************************************************************)
(* Role store and user store (pkg/models)                                  *)
(***************************************************************************)
\* external subject ids the identity provider issues tokens for
Subjects == {"abc123", "def456"}

UserIds == 1..Cardinality(Subjects)

\* a role id no row of table roles has
DanglingRoleId == Cardinality(RoleNames) + 1

ErrNone == ""
ErrDuplicate == "pq: duplicate key value violates unique constraint"
ErrForeignKey == "pq: insert or update violates foreign key constraint"
ErrNoRows == "sql: no rows in result set"
ErrStore == "driver: bad connection"

NoRoles == [p \in UserIds \X RoleIds |-> 0]

UserRow(id) == CHOOSE u \in users : u.id = id

ExistingIds == {u.id : u \in users}

\* the role names user userID is assigned, as a set
StoredRoles(userID) == {n \in RoleNames : user_roles[<<userID, RoleIdOf[n]>>] > 0}

\* SELECT ... FROM roles r JOIN user_roles ur ... WHERE ur.user_id = $1 ORDER BY r.name
GetUserRoles(userID) ==
    RolesOrdered([i \in RoleIds |-> user_roles[<<userID, i>>]], 1)

\* role := &Role{}
ZeroRole == [ID |-> 0, Name |-> "", Permissions |-> <<>>]

\* SELECT ... FROM roles WHERE name = $1
GetRoleByName(name, fault) ==
    IF fault THEN [err |-> ErrStore, role |-> ZeroRole]
    ELSE IF name \notin RoleNames THEN [err |-> ErrNoRows, role |-> ZeroRole]
    ELSE [err |-> ErrNone, role |-> RoleRecord(name)]

AssignRoleNoUnique(userID, roleID, fault) ==
    IF fault THEN [err |-> ErrStore, user_roles |-> user_roles]
    ELSE IF userID \notin ExistingIds \/ roleID \notin RoleIds
        THEN [err |-> ErrForeignKey, user_roles |-> user_roles]
    ELSE [err |-> ErrNone,
          user_roles |-> [user_roles EXCEPT ![<<userID, roleID>>] = @ + 1]]

AssignRoleIgnoreDuplicate(userID, roleID, fault) ==
    IF fault THEN [err |-> ErrStore, user_roles |-> user_roles]
    ELSE IF userID \notin ExistingIds \/ roleID \notin RoleIds
        THEN [err |-> ErrForeignKey, user_roles |-> user_roles]
    ELSE [err |-> ErrNone,
          user_roles |-> [user_roles EXCEPT ![<<userID, roleID>>] = 1]]

AssignRoleDropped(userID, roleID, fault) ==
    IF fault THEN [err |-> ErrStore, user_roles |-> user_roles]
    ELSE [err |-> ErrNone, user_roles |-> user_roles]

\* INSERT INTO user_roles (user_id, role_id, assigned_by), under UNIQUE(user_id, role_id)
\* and the two REFERENCES constraints
AssignRole(userID, roleID, fault) ==
    IF fault THEN [err |-> ErrStore, user_roles |-> user_roles]
    ELSE IF userID \notin ExistingIds \/ roleID \notin RoleIds
        THEN [err |-> ErrForeignKey, user_roles |-> user_roles]
    ELSE IF user_roles[<<userID, roleID>>] > 0
        THEN [err |-> ErrDuplicate, user_roles |-> user_roles]
    ELSE [err |-> ErrNone,
          user_roles |-> [user_roles EXCEPT ![<<userID, roleID>>] = @ + 1]]

RemoveRoleSwapped(userID, roleID, fault) ==
    IF fault THEN [err |-> ErrStore, user_roles |-> user_roles]
    ELSE [err |-> ErrNone,
          user_roles |-> [p \in UserIds \X RoleIds |->
                             IF p = <<roleID, userID>> THEN 0 ELSE user_roles[p]]]

RemoveRoleStrict(userID, roleID, fault) ==
    IF fault THEN [err |-> ErrStore, user_roles |-> user_roles]
    ELSE IF <<userID, roleID>> \notin UserIds \X RoleIds \/ user_roles[<<userID, roleID>>] = 0
        THEN [err |-> ErrNoRows, user_roles |-> user_roles]
    ELSE [err |-> ErrNone,
          user_roles |-> [user_roles EXCEPT ![<<userID, roleID>>] = 0]]

\* DELETE FROM user_roles WHERE user_id = $1 AND role_id = $2
RemoveRole(userID, roleID, fault) ==
    IF fault THEN [err |-> ErrStore, user_roles |-> user_roles]
    ELSE [err |-> ErrNone,
          user_roles |-> [p \in UserIds \X RoleIds |->
                             IF p = <<userID, roleID>> THEN 0 ELSE user_roles[p]]]

\* SELECT ... FROM users WHERE id = $1, then GetUserRoles
GetUserByID(id, fault) ==
    IF fault THEN [err |-> ErrStore, user |-> NoUser]
    ELSE IF id \notin ExistingIds THEN [err |-> ErrNoRows, user |-> NoUser]
    ELSE [err |-> ErrNone, user |-> [ID |-> id, Roles |-> GetUserRoles(id)]]

\* SELECT ... FROM users WHERE keycloak_id = $1, then GetUserRoles
GetUserByKeycloakID(keycloakID, fault) ==
    IF fault THEN [err |-> ErrStore, user |-> NoUser]
    ELSE IF \A u \in users : u.keycloak_id # keycloakID THEN [err |-> ErrNoRows, user |-> NoUser]
    ELSE LET row == CHOOSE u \in users : u.keycloak_id = keycloakID
         IN [err |-> ErrNone, user |-> [ID |-> row.id, Roles |-> GetUserRoles(row.id)]]

CreateUserNoUnique(keycloakID, userStatus, fault) ==
    IF fault THEN [err |-> ErrStore, id |-> 0, users |-> users]
    ELSE LET id == Cardinality(users) + 1
         IN [err |-> ErrNone, id |-> id,
             users |-> users \cup {[id |-> id, keycloak_id |-> keycloakID, status |-> userStatus]}]

\* INSERT INTO users (...) RETURNING id, under UNIQUE(keycloak_id); id is SERIAL
CreateUser(keycloakID, userStatus, fault) ==
    IF fault THEN [err |-> ErrStore, id |-> 0, users |-> users]
    ELSE IF \E u \in users : u.keycloak_id = keycloakID
        THEN [err |-> ErrDuplicate, id |-> 0, users |-> users]
    ELSE LET id == Cardinality(users) + 1
         IN [err |-> ErrNone, id |-> id,
             users |-> users \cup {[id |-> id, keycloak_id |-> keycloakID, status |-> userStatus]}]

(***************************************************************************)
(* Request authenticator, federated path: LoadUserFromToken and            *)
(* assignRolesFromKeycloak (pkg/middleware)                                *)
(***************************************************************************)
Workers == {1, 2}

\* store calls that may fail with a store error while one request is served
MaxFaults == 1

\* whether one more store call of worker w's request may fail that way
Faults(w) == IF req[w].faults < MaxFaults THEN BOOLEAN ELSE {FALSE}

MaxRealmRoles == 2

\* realm role names the provider may assert
RealmRoleNames == RoleNames \cup {"unmapped_role"}

RealmRoleLists == SeqsUpTo(RealmRoleNames, MaxRealmRoles)

\* the subject whose tokens the requests carry
TokenSubjects == {"abc123"}

\* defaultRole, err := models.GetRoleByName("tenant")
DefaultRoleViewer == "viewer"

DefaultRoleName == "tenant"

\* roleMapping := map[string]string{...}
roleMapping == [k \in {"admin", "property_manager", "tenant", "viewer"} |-> k]

\* the application roles the claims map to
MappedRoles(keycloakRoles) ==
    {roleMapping[keycloakRoles[i]] :
        i \in {j \in 1..Len(keycloakRoles) : keycloakRoles[j] \in DOMAIN roleMapping}}

IdleReq ==
    [pc |-> "idle", path |-> "", sub |-> "", keycloakRoles |-> <<>>,
     user |-> NoUser, stale |-> FALSE, toRemove |-> {}, i |-> 0, assignedCount |-> 0,
     ctx |-> NoUser, nextCalls |-> 0, faulted |-> FALSE, faults |-> 0, created |-> FALSE,
     token |-> "", lookedUpAt |-> 0, found |-> FALSE, expiresAt |-> 0,
     userID |-> 0, roleID |-> 0, err |-> ErrNone, status |-> 0, assignedBefore |-> FALSE,
     repeat |-> FALSE, midSync |-> FALSE]

\* worker v has served a request with these claims to the end, without a failure
ProcessedBy(v, sub, keycloakRoles) ==
    /\ req[v].path = "token"
    /\ req[v].pc = "done"
    /\ ~req[v].faulted
    /\ req[v].ctx # NoUser
    /\ req[v].sub = sub
    /\ req[v].keycloakRoles = keycloakRoles

\* worker v is inside assignRolesFromKeycloak for user userID
SyncInProgress(v, userID) ==
    /\ req[v].path = "token"
    /\ req[v].pc \in {"remove", "assign"}
    /\ req[v].user.ID = userID

\* r.Cookie("id_token") is absent or empty, or Verify / Claims fails: next.ServeHTTP(w, r)
LoadUserFromTokenNoToken(w) ==
    /\ req[w].pc = "idle"
    /\ req' = [req EXCEPT ![w] = [IdleReq EXCEPT !.pc = "done", !.path = "token", !.nextCalls = 1]]
    /\ UNCHANGED <<users, user_roles, user_sessions, now>>
    /\ UNCHANGED guardVars

\* the id_token verifies; the claims are extracted
LoadUserFromTokenVerified(w) ==
    /\ req[w].pc = "idle"
    /\ \E sub \in TokenSubjects, keycloakRoles \in RealmRoleLists :
          req' = [req EXCEPT ![w] = [IdleReq EXCEPT !.pc = "lookup", !.path = "token",
                                        !.sub = sub, !.keycloakRoles = keycloakRoles,
                                        !.repeat = \E v \in Workers \ {w} :
                                                       ProcessedBy(v, sub, keycloakRoles)]]
    /\ UNCHANGED <<users, user_roles, user_sessions, now>>
    /\ UNCHANGED guardVars

\* user, err := models.GetUserByKeycloakID(claims.Subject)
LookupUser(w) ==
    /\ req[w].pc = "lookup"
    /\ \E fault \in Faults(w) :
          LET got == GetUserByKeycloakID(req[w].sub, fault) IN
          req' = [req EXCEPT ![w] =
                    IF got.err # ErrNone
                      THEN [@ EXCEPT !.pc = "create", !.faulted = @ \/ fault,
                                     !.faults = IF fault THEN @ + 1 ELSE @]
                      ELSE [@ EXCEPT !.pc = "remove", !.user = got.user,
                                     !.stale = StoredRoles(got.user.ID) \ MappedRoles(req[w].keycloakRoles) # {},
                                     !.toRemove = {roleMapping[k] : k \in DOMAIN roleMapping}]]
    /\ UNCHANGED <<users, user_roles, user_sessions, now>>
    /\ UNCHANGED guardVars

\* models.CreateUser(user); on failure the struct built from the claims stays in user
CreateUserStep(w) ==
    /\ req[w].pc = "create"
    /\ \E fault \in Faults(w) :
          LET got == CreateUser(req[w].sub, "active", fault) IN
          /\ users' = got.users
          /\ req' = [req EXCEPT ![w] =
                       IF got.err = ErrNone
                         THEN [@ EXCEPT !.pc = "remove", !.created = TRUE,
                                        !.user = [ID |-> got.id, Roles |-> <<>>],
                                        !.toRemove = {roleMapping[k] : k \in DOMAIN roleMapping}]
                         ELSE [@ EXCEPT !.pc = "done", !.faulted = TRUE,
                                        !.faults = IF fault THEN @ + 1 ELSE @,
                                        !.user = [ID |-> 0, Roles |-> <<>>],
                                        !.ctx = [ID |-> 0, Roles |-> <<>>],
                                        !.nextCalls = 1]]
    /\ UNCHANGED <<user_roles, user_sessions, now>>
    /\ UNCHANGED guardVars

\* one iteration of: for _, appRole := range roleMapping { GetRoleByName; RemoveRole }
RemoveStep(w) ==
    /\ req[w].pc = "remove"
    /\ req[w].toRemove # {}
    /\ \E appRole \in req[w].toRemove, faultGet \in Faults(w), faultRemove \in Faults(w) :
          LET rec == GetRoleByName(appRole, faultGet)
              res == RemoveRole(req[w].user.ID, rec.role.ID, faultRemove)
              ok == rec.err = ErrNone /\ res.err = ErrNone
          IN
          /\ faultGet => ~faultRemove
          /\ user_roles' = IF rec.err = ErrNone THEN res.user_roles ELSE user_roles
          /\ req' = [req EXCEPT ![w].toRemove = @ \ {appRole},
                                ![w].faulted = @ \/ ~ok,
                                ![w].faults = IF faultGet \/ faultRemove THEN @ + 1 ELSE @]
    /\ UNCHANGED <<users, user_sessions, now>>
    /\ UNCHANGED guardVars

\* the removal loop is over
RemoveDone(w) ==
    /\ req[w].pc = "remove"
    /\ req[w].toRemove = {}
    /\ req' = [req EXCEPT ![w].pc = "assign", ![w].i = 1, ![w].assignedCount = 0]
    /\ UNCHANGED <<users, user_roles, user_sessions, now>>
    /\ UNCHANGED guardVars

AssignStepAborts(w) ==
    /\ req[w].pc = "assign"
    /\ req[w].i <= Len(req[w].keycloakRoles)
    /\ LET keycloakRole == req[w].keycloakRoles[req[w].i] IN
       IF keycloakRole \in DOMAIN roleMapping
         THEN \E faultGet \in Faults(w), faultAssign \in Faults(w) :
                 LET rec == GetRoleByName(roleMapping[keycloakRole], faultGet)
                     res == AssignRole(req[w].user.ID, rec.role.ID, faultAssign)
                     ok == rec.err = ErrNone /\ res.err = ErrNone
                 IN
                 /\ faultGet => ~faultAssign
                 /\ user_roles' = IF rec.err = ErrNone THEN res.user_roles ELSE user_roles
                 /\ req' = [req EXCEPT ![w].i = @ + 1,
                                       ![w].pc = IF ok THEN @ ELSE "reload",
                                       ![w].assignedCount = IF ok THEN @ + 1 ELSE @,
                                       ![w].faulted = @ \/ ~ok,
                                       ![w].faults = IF faultGet \/ faultAssign THEN @ + 1 ELSE @]
         ELSE /\ req' = [req EXCEPT ![w].i = @ + 1]
              /\ UNCHANGED user_roles
    /\ UNCHANGED <<users, user_sessions, now>>
    /\ UNCHANGED guardVars

\* one iteration of: for _, keycloakRole := range keycloakRoles { ... AssignRole ... }
AssignStep(w) ==
    /\ req[w].pc = "assign"
    /\ req[w].i <= Len(req[w].keycloakRoles)
    /\ LET keycloakRole == req[w].keycloakRoles[req[w].i] IN
       IF keycloakRole \in DOMAIN roleMapping
         THEN \E faultGet \in Faults(w), faultAssign \in Faults(w) :
                 LET rec == GetRoleByName(roleMapping[keycloakRole], faultGet)
                     res == AssignRole(req[w].user.ID, rec.role.ID, faultAssign)
                     ok == rec.err = ErrNone /\ res.err = ErrNone
                 IN
                 /\ faultGet => ~faultAssign
                 /\ user_roles' = IF rec.err = ErrNone THEN res.user_roles ELSE user_roles
                 /\ req' = [req EXCEPT ![w].i = @ + 1,
                                       ![w].assignedCount = IF ok THEN @ + 1 ELSE @,
                                       ![w].faulted = @ \/ ~ok,
                                       ![w].faults = IF faultGet \/ faultAssign THEN @ + 1 ELSE @]
         ELSE /\ req' = [req EXCEPT ![w].i = @ + 1]
              /\ UNCHANGED user_roles
    /\ UNCHANGED <<users, user_sessions, now>>
    /\ UNCHANGED guardVars

\* if assignedCount == 0 { GetRoleByName("tenant"); AssignRole }
AssignDefault(w) ==
    /\ req[w].pc = "assign"
    /\ req[w].i > Len(req[w].keycloakRoles)
    /\ IF req[w].assignedCount = 0
         THEN \E faultGet \in Faults(w), faultAssign \in Faults(w) :
                 LET defaultRole == GetRoleByName(DefaultRoleName, faultGet)
                     res == AssignRole(req[w].user.ID, defaultRole.role.ID, faultAssign)
                     ok == defaultRole.err = ErrNone /\ res.err = ErrNone
                 IN
                 /\ faultGet => ~faultAssign
                 /\ user_roles' = IF defaultRole.err = ErrNone THEN res.user_roles ELSE user_roles
                 /\ req' = [req EXCEPT ![w].pc = "reload",
                                       ![w].faulted = @ \/ ~ok,
                                       ![w].faults = IF faultGet \/ faultAssign THEN @ + 1 ELSE @]
         ELSE /\ req' = [req EXCEPT ![w].pc = "reload"]
              /\ UNCHANGED user_roles
    /\ UNCHANGED <<users, user_sessions, now>>
    /\ UNCHANGED guardVars

\* user, _ = models.GetUserByID(user.ID); len(user.Roles); if user != nil { attach; next }
ReloadUser(w) ==
    /\ req[w].pc = "reload"
    /\ \E fault \in Faults(w) :
          LET got == GetUserByID(req[w].user.ID, fault) IN
          req' = [req EXCEPT ![w] =
                    IF got.err # ErrNone
                      \* user is nil: user.Roles dereferences it and the handler panics
                      THEN [@ EXCEPT !.pc = "panic", !.user = NoUser, !.faulted = TRUE,
                                     !.faults = IF fault THEN @ + 1 ELSE @]
                      ELSE [@ EXCEPT !.pc = "done", !.user = got.user, !.ctx = got.user,
                                     !.nextCalls = 1]]
    /\ UNCHANGED <<users, user_roles, user_sessions, now>>
    /\ UNCHANGED guardVars

\* the response is out and the worker takes the next request
Finish(w) ==
    /\ req[w].pc \in {"done", "panic"}
    /\ req' = [req EXCEPT ![w] = IdleReq]
    /\ UNCHANGED <<users, user_roles, user_sessions, now>>
    /\ UNCHANGED guardVars

(***************************************************************************)
(* Role administration: handleAssignRole, handleRemoveRole (pkg/api)       *)
(***************************************************************************)
StatusConflict == 409
StatusInternalServerError == 500

\* strings.Contains
Contains(s, substr) ==
    \E k \in 0..(Len(s) - Len(substr)) : SubSeq(s, k + 1, k + Len(substr)) = substr

\* models.AssignRole(userID, request.RoleID, assignedBy) and the status written
handleAssignRole(w) ==
    /\ req[w].pc = "idle"
    /\ \E userID \in UserIds, roleID \in RoleIds \cup {DanglingRoleId}, fault \in BOOLEAN :
          LET res == AssignRole(userID, roleID, fault) IN
          /\ user_roles' = res.user_roles
          /\ req' = [req EXCEPT ![w] =
                       [IdleReq EXCEPT !.pc = "done", !.path = "assignRole",
                                       !.userID = userID, !.roleID = roleID, !.err = res.err,
                                       !.assignedBefore = /\ roleID \in RoleIds
                                                          /\ user_roles[<<userID, roleID>>] > 0,
                                       !.faulted = res.err # ErrNone,
                                       !.faults = IF fault THEN 1 ELSE 0,
                                       !.status = IF res.err = ErrNone THEN StatusOK
                                                  ELSE IF Contains(res.err, "duplicate")
                                                    THEN StatusConflict
                                                  ELSE StatusInternalServerError]]
    /\ UNCHANGED <<users, user_sessions, now>>
    /\ UNCHANGED guardVars

\* models.RemoveRole(userID, roleID) and the status written
handleRemoveRole(w) ==
    /\ req[w].pc = "idle"
    /\ \E userID \in UserIds, roleID \in RoleIds \cup {DanglingRoleId}, fault \in BOOLEAN :
          LET res == RemoveRole(userID, roleID, fault) IN
          /\ user_roles' = res.user_roles
          /\ req' = [req EXCEPT ![w] =
                       [IdleReq EXCEPT !.pc = "done", !.path = "removeRole",
                                       !.userID = userID, !.roleID = roleID, !.err = res.err,
                                       !.assignedBefore = /\ roleID \in RoleIds
                                                          /\ user_roles[<<userID, roleID>>] > 0,
                                       !.faulted = res.err # ErrNone,
                                       !.faults = IF fault THEN 1 ELSE 0,
                                       !.status = IF res.err = ErrNone THEN StatusOK
                                                  ELSE StatusInternalServerError]]
    /\ UNCHANGED <<users, user_sessions, now>>
    /\ UNCHANGED guardVars

StatusNotFound == 404

\* GET /api/users/{id}: models.GetUserByID(userID) and the status written
handleGetUser(w) ==
    /\ req[w].pc = "idle"
    /\ \E userID \in UserIds, fault \in BOOLEAN :
          LET got == GetUserByID(userID, fault) IN
          req' = [req EXCEPT ![w] =
                    [IdleReq EXCEPT !.pc = "done", !.path = "getUser",
                                    !.userID = userID, !.err = got.err, !.user = got.user,
                                    !.faulted = got.err # ErrNone,
                                    !.faults = IF fault THEN 1 ELSE 0,
                                    !.midSync = \E v \in Workers \ {w} : SyncInProgress(v, userID),
                                    !.status = IF got.err = ErrNone THEN StatusOK
                                               ELSE IF got.err = ErrNoRows THEN StatusNotFound
                                               ELSE StatusInternalServerError]]
    /\ UNCHANGED <<users, user_roles, user_sessions, now>>
    /\ UNCHANGED guardVars

\* users.status: 'active', 'suspended', 'inactive'
UserStatuses == {"active", "suspended", "inactive"}

\* UPDATE users SET ..., status = $10, ... WHERE id = $14
UpdateUser(id, userStatus, fault) ==
    IF fault THEN [err |-> ErrStore, users |-> users]
    ELSE [err |-> ErrNone,
          users |-> {IF u.id = id THEN [u EXCEPT !.status = userStatus] ELSE u : u \in users}]

\* PUT /api/users/{id}: GetUserByID, then UpdateUser with the status of the body
handleUpdateUser(w) ==
    /\ req[w].pc = "idle"
    /\ \E userID \in UserIds, userStatus \in UserStatuses,
          readFault \in BOOLEAN, writeFault \in BOOLEAN :
          LET got == GetUserByID(userID, readFault)
              upd == IF got.err = ErrNone THEN UpdateUser(userID, userStatus, writeFault)
                                          ELSE [err |-> got.err, users |-> users]
          IN
          /\ users' = upd.users
          /\ req' = [req EXCEPT ![w] =
                       [IdleReq EXCEPT !.pc = "done", !.path = "updateUser",
                                       !.userID = userID, !.err = upd.err,
                                       !.faulted = upd.err # ErrNone,
                                       !.faults = IF upd.err = ErrStore THEN 1 ELSE 0,
                                       !.status = IF upd.err = ErrNone THEN StatusOK
                                                  ELSE IF got.err = ErrNoRows THEN StatusNotFound
                                                  ELSE StatusInternalServerError]]
    /\ UNCHANGED <<user_roles, user_sessions, now>>
    /\ UNCHANGED guardVars

(***************************************************************************)
(* Sessions: CreateUserSession, GetUserSession, DeleteUserSession,         *)
(* CleanupExpiredSessions and the session path SessionAuth                 *)
(***************************************************************************)
\* hours a session lives: ExpiresAt: time.Now().Add(24 * time.Hour)
SessionTTL == 24
\* hours the clock advances in one step, and the last hour modelled
ClockStep == 12
MaxTime == 36

\* values GenerateSecureToken may return
SessionTokens == {"tok1", "tok2"}

GetUserSessionAnyExpiry(token, fault) ==
    IF fault THEN [err |-> ErrStore, UserID |-> 0, ExpiresAt |-> 0]
    ELSE IF \A x \in user_sessions : x.session_token # token
        THEN [err |-> ErrNoRows, UserID |-> 0, ExpiresAt |-> 0]
    ELSE LET x == CHOOSE x \in user_sessions : x.session_token = token
         IN [err |-> ErrNone, UserID |-> x.user_id, ExpiresAt |-> x.expires_at]

\* SELECT ... FROM user_sessions WHERE session_token = $1 AND expires_at > NOW()
GetUserSession(token, fault) ==
    IF fault THEN [err |-> ErrStore, UserID |-> 0, ExpiresAt |-> 0]
    ELSE IF \A x \in user_sessions : ~(x.session_token = token /\ x.expires_at > now)
        THEN [err |-> ErrNoRows, UserID |-> 0, ExpiresAt |-> 0]
    ELSE LET x == CHOOSE x \in user_sessions : x.session_token = token /\ x.expires_at > now
         IN [err |-> ErrNone, UserID |-> x.user_id, ExpiresAt |-> x.expires_at]

\* middleware.CreateUserSession: a fresh token, 24 hours, INSERT INTO user_sessions
\* under UNIQUE(session_token) and user_id REFERENCES users(id)
CreateUserSession ==
    /\ \E userID \in UserIds, token \in SessionTokens, fault \in BOOLEAN :
          LET ok == /\ ~fault
                    /\ userID \in ExistingIds
                    /\ \A x \in user_sessions : x.session_token # token
          IN
          user_sessions' =
                IF ok THEN user_sessions \cup {[session_token |-> token, user_id |-> userID,
                                                expires_at |-> now + SessionTTL]}
                      ELSE user_sessions
    /\ UNCHANGED <<users, user_roles, now, req>>
    /\ UNCHANGED guardVars

\* DELETE FROM user_sessions WHERE session_token = $1
DeleteUserSession(token, fault) ==
    IF fault THEN [err |-> ErrStore, user_sessions |-> user_sessions]
    ELSE [err |-> ErrNone,
          user_sessions |-> {x \in user_sessions : x.session_token # token}]

\* handleLogout: models.DeleteUserSession(sessionCookie.Value) when the request
\* has a session_token cookie, its error dropped; both cookies are cleared and
\* the answer is 200 "Logged out successfully"
handleLogout(w) ==
    /\ req[w].pc = "idle"
    /\ \E token \in {""} \cup SessionTokens, fault \in BOOLEAN :
          LET got == IF token # "" THEN DeleteUserSession(token, fault)
                                   ELSE [err |-> ErrNone, user_sessions |-> user_sessions]
          IN
          /\ user_sessions' = got.user_sessions
          /\ req' = [req EXCEPT ![w] =
                        [IdleReq EXCEPT !.pc = "done", !.path = "logout", !.token = token,
                                        !.err = got.err, !.status = StatusOK,
                                        !.faulted = got.err # ErrNone,
                                        !.faults = IF got.err # ErrNone THEN 1 ELSE 0]]
    /\ UNCHANGED <<users, user_roles, now>>
    /\ UNCHANGED guardVars

CleanupAllSessions ==
    /\ user_sessions' = {}
    /\ UNCHANGED <<users, user_roles, now, req>>
    /\ UNCHANGED guardVars

\* DELETE FROM user_sessions WHERE expires_at <= NOW()
CleanupExpiredSessions ==
    /\ user_sessions' = {x \in user_sessions : ~(x.expires_at <= now)}
    /\ UNCHANGED <<users, user_roles, now, req>>
    /\ UNCHANGED guardVars

\* time passes
Tick ==
    /\ now + ClockStep <= MaxTime
    /\ now' = now + ClockStep
    /\ UNCHANGED <<users, user_roles, user_sessions, req>>
    /\ UNCHANGED guardVars

\* r.Cookie("session_token") is absent or empty: next.ServeHTTP(w, r)
SessionAuthNoCookie(w) ==
    /\ req[w].pc = "idle"
    /\ req' = [req EXCEPT ![w] = [IdleReq EXCEPT !.pc = "done", !.path = "session", !.nextCalls = 1]]
    /\ UNCHANGED <<users, user_roles, user_sessions, now>>
    /\ UNCHANGED guardVars

\* session, err := models.GetUserSession(sessionCookie.Value)
SessionAuthLookup(w) ==
    /\ req[w].pc = "idle"
    /\ \E token \in SessionTokens, fault \in BOOLEAN :
          LET got == GetUserSession(token, fault) IN
          req' = [req EXCEPT ![w] =
                    IF got.err # ErrNone
                      THEN [IdleReq EXCEPT !.pc = "done", !.path = "session", !.token = token,
                                           !.lookedUpAt = now, !.nextCalls = 1,
                                           !.faulted = fault,
                                           !.faults = IF fault THEN 1 ELSE 0]
                      ELSE [IdleReq EXCEPT !.pc = "load", !.path = "session", !.token = token,
                                           !.lookedUpAt = now, !.found = TRUE,
                                           !.expiresAt = got.ExpiresAt,
                                           !.user = [ID |-> got.UserID, Roles |-> <<>>]]]
    /\ UNCHANGED <<users, user_roles, user_sessions, now>>
    /\ UNCHANGED guardVars

\* user, err := models.GetUserByID(session.UserID); attach on success; next.ServeHTTP
SessionAuthLoad(w) ==
    /\ req[w].pc = "load"
    /\ \E fault \in Faults(w) :
          LET got == GetUserByID(req[w].user.ID, fault) IN
          req' = [req EXCEPT ![w] =
                    IF got.err # ErrNone
                      THEN [@ EXCEPT !.pc = "done", !.nextCalls = 1, !.faulted = TRUE,
                                     !.faults = IF fault THEN @ + 1 ELSE @]
                      ELSE [@ EXCEPT !.pc = "done", !.nextCalls = 1, !.user = got.user,
                                     !.ctx = got.user]]
    /\ UNCHANGED <<users, user_roles, user_sessions, now>>
    /\ UNCHANGED guardVars

(***************************************************************************)
(* Routing: RegisterRoutes, RegisterUserRoutes and RequireLogin            *)
(***************************************************************************)
StatusFound == 302

\* the id_token cookie of a request: absent or empty, present but failing
\* Verify, or verifying
IdTokens == {"", "invalid", "valid"}

\* auth.Use(middleware.LoadUserFromToken); auth.Use(middleware.RequireLogin)
AuthGroup == <<[kind |-> "LoadUserFromToken"], [kind |-> "RequireLogin"]>>

\* the middleware in front of each registered handler
RouteTable ==
    [rt \in {<<"GET", "/health">>, <<"POST", "/api/users/register">>, <<"GET", "/">>,
             <<"GET", "/properties">>, <<"GET", "/tenants">>, <<"GET", "/maintenance">>,
             <<"GET", "/reports">>, <<"GET", "/admin/users">>, <<"GET", "/api/users">>} |->
        CASE rt \in {<<"GET", "/health">>, <<"POST", "/api/users/register">>} -> <<>>
          [] rt = <<"GET", "/">> -> AuthGroup
          [] rt \in {<<"GET", "/properties">>, <<"GET", "/tenants">>, <<"GET", "/reports">>} ->
               Append(AuthGroup, [kind |-> "RequireAnyRole",
                                  roleNames |-> <<"admin", "property_manager", "viewer">>])
          [] rt = <<"GET", "/maintenance">> ->
               Append(AuthGroup, [kind |-> "RequireAnyRole",
                                  roleNames |-> <<"admin", "property_manager", "tenant">>])
          [] rt \in {<<"GET", "/admin/users">>, <<"GET", "/api/users">>} ->
               Append(AuthGroup, [kind |-> "RequireAnyRole",
                                  roleNames |-> <<"admin", "property_manager">>])]

\* the users the federated path can leave in the context: a stored user with the
\* roles it holds after the sync
StoredUsers ==
    { [ID |-> 1, Roles |-> RolesOrdered([i \in RoleIds |-> IF RoleNameOf[i] \in S THEN 1 ELSE 0], 1)] :
        S \in SUBSET RoleNames }

\* LoadUserFromToken in front of a route: without a verifying token it calls next
\* with no user; with one it attaches the user it resolved, calls next with none,
\* or panics on a failed reload (the Recoverer answers 500)
LoadUserFromToken ==
    /\ pos \in 1..Len(chain)
    /\ chain[pos].kind = "LoadUserFromToken"
    /\ \/ /\ \E u \in IF request.idToken = "valid" THEN StoredUsers \cup {NoUser} ELSE {NoUser} :
                ctxUser' = u
          /\ pos' = pos + 1
          /\ ran' = Append(ran, [guard |-> chain[pos], outcome |-> PassToNext])
          /\ UNCHANGED status
       \/ /\ request.idToken = "valid"
          /\ status' = StatusInternalServerError
          /\ pos' = Len(chain) + 2
          /\ ran' = Append(ran, [guard |-> chain[pos], outcome |-> StatusInternalServerError])
          /\ UNCHANGED ctxUser
    /\ UNCHANGED <<chain, served, request, sent>>
    /\ UNCHANGED storeVars

\* generateCodeVerifier: 32 bytes of crypto/rand, base64url; rand.Read returns no
\* error under the go 1.24.6 this module builds with (go.mod), so err is nil
generateCodeVerifier == [codeVerifier |-> "verifier", err |-> FALSE]

RequireLoginTrustsCookie ==
    IF request.idToken # "" THEN PassToNext
    ELSE IF generateCodeVerifier.err THEN StatusInternalServerError
    ELSE StatusFound

\* what RequireLogin does with the request: next when the id_token verifies,
\* otherwise the redirect to the provider's authorization URL
RequireLoginOutcome ==
    IF request.idToken = "valid" THEN PassToNext
    ELSE IF generateCodeVerifier.err THEN StatusInternalServerError
    ELSE StatusFound

RequireLogin ==
    /\ pos \in 1..Len(chain)
    /\ chain[pos].kind = "RequireLogin"
    /\ Respond(RequireLoginOutcome)

\* SessionAuth in front of a guard: the user of the unexpired session the cookie
\* names is attached; in every other case next runs with the context as it was
SessionAuth ==
    /\ pos \in 1..Len(chain)
    /\ chain[pos].kind = "SessionAuth"
    /\ \E sessionFault \in BOOLEAN, userFault \in BOOLEAN :
          LET session == GetUserSession(request.sessionToken, sessionFault)
              got == GetUserByID(session.UserID, userFault)
          IN ctxUser' = IF request.sessionToken # "" /\ session.err = ErrNone /\ got.err = ErrNone
                          THEN got.user
                          ELSE ctxUser
    /\ pos' = pos + 1
    /\ ran' = Append(ran, [guard |-> chain[pos], outcome |-> PassToNext])
    /\ UNCHANGED <<chain, status, served, request, sent>>
    /\ UNCHANGED storeVars

\* the client keeps the response and sends the same request again without its
\* id_token and session_token cookies
Resend ==
    /\ pos = Len(chain) + 2
    /\ sent = <<>>
    /\ sent' = <<[request |-> request, status |-> status, served |-> served, ran |-> ran]>>
    /\ request' = [request EXCEPT !.idToken = "", !.sessionToken = ""]
    /\ ctxUser' = NoUser
    /\ pos' = 1
    /\ status' = 0
    /\ served' = 0
    /\ ran' = <<>>
    /\ UNCHANGED chain
    /\ UNCHANGED storeVars

(***************************************************************************)
(* Specifications                                                          *)
(***************************************************************************)
\* the worker of the specifications that serve one request at a time
SerialWorkers == {1}

EmptyStore ==
    /\ users = {}
    /\ user_roles = NoRoles
    /\ user_sessions = {}
    /\ now = 0
    /\ req = [w \in Workers |-> IdleReq]

NoPipeline ==
    /\ ctxUser = NoUser
    /\ chain = <<>>
    /\ pos = 0
    /\ status = 0
    /\ served = 0
    /\ ran = <<>>
    /\ request = NoRequest
    /\ sent = <<>>

\* Guards: a request with some user (or none) attached runs through its guards
GuardInit ==
    /\ EmptyStore
    /\ ctxUser \in CtxUsers
    /\ chain \in Chains
    /\ pos = 1
    /\ status = 0
    /\ served = 0
    /\ ran = <<>>
    /\ request = NoRequest
    /\ sent = <<>>

GuardNext ==
    \/ RequirePermission
    \/ RequireRole
    \/ RequireAnyRole
    \/ Handler

SpecGuard == GuardInit /\ [][GuardNext]_vars

\* Routes: a request is routed to its handler through the middleware registered
\* in front of it
RoutesInit ==
    /\ EmptyStore
    /\ ctxUser = NoUser
    /\ \E rt \in DOMAIN RouteTable, idToken \in IdTokens :
          /\ request = [method |-> rt[1], path |-> rt[2], idToken |-> idToken, sessionToken |-> ""]
          /\ chain = RouteTable[rt]
    /\ pos = 1
    /\ status = 0
    /\ served = 0
    /\ ran = <<>>
    /\ sent = <<>>

RoutesNext ==
    \/ LoadUserFromToken
    \/ RequireLogin
    \/ RequireAnyRole
    \/ Handler

SpecRoutes == RoutesInit /\ [][RoutesNext]_vars

\* Sync: federated logins and role administration, one operation at a time
SyncInit == EmptyStore /\ NoPipeline

SyncNext ==
    \/ \E w \in SerialWorkers :
          \/ LoadUserFromTokenNoToken(w)
          \/ LoadUserFromTokenVerified(w)
          \/ LookupUser(w)
          \/ CreateUserStep(w)
          \/ RemoveStep(w)
          \/ RemoveDone(w)
          \/ AssignStep(w)
          \/ AssignDefault(w)
          \/ ReloadUser(w)
          \/ Finish(w)
          \/ handleAssignRole(w)
          \/ handleRemoveRole(w)

SpecSync == SyncInit /\ [][SyncNext]_vars

\* Sessions: logins, logouts, the cleanup sweep and requests on the session path
TwoUsers ==
    { [id |-> 1, keycloak_id |-> "abc123", status |-> "active"],
      [id |-> 2, keycloak_id |-> "def456", status |-> "active"] }

SessionInit ==
    /\ NoPipeline
    /\ users = TwoUsers
    /\ user_roles \in { [NoRoles EXCEPT ![<<1, RoleIdOf[a]>>] = 1, ![<<2, RoleIdOf[b]>>] = 1] :
                          a \in {"admin", "tenant"}, b \in {"viewer"} }
    /\ user_sessions = {}
    /\ now = 0
    /\ req = [w \in Workers |-> IdleReq]

SessionNext ==
    \/ CreateUserSession
    \/ CleanupExpiredSessions
    \/ Tick
    \/ \E w \in SerialWorkers :
          \/ handleLogout(w)
          \/ handleUpdateUser(w)
          \/ SessionAuthNoCookie(w)
          \/ SessionAuthLookup(w)
          \/ SessionAuthLoad(w)
          \/ Finish(w)

SpecSession == SessionInit /\ [][SessionNext]_vars

\* Roles: role administration over two existing users
RolesInit ==
    /\ NoPipeline
    /\ users = TwoUsers
    /\ user_roles = NoRoles
    /\ user_sessions = {}
    /\ now = 0
    /\ req = [w \in Workers |-> IdleReq]

RolesNext ==
    \E w \in SerialWorkers :
        \/ handleAssignRole(w)
        \/ handleRemoveRole(w)
        \/ handleGetUser(w)
        \/ Finish(w)

SpecRoles == RolesInit /\ [][RolesNext]_vars

\* Concurrent: two requests are served at once over a store that does not fail;
\* user 1 (subject abc123) exists and holds admin
ConcurrentClaims == {<<"admin">>, <<"viewer">>}

ConcurrentInit ==
    /\ NoPipeline
    /\ users = TwoUsers
    /\ user_roles = [NoRoles EXCEPT ![<<1, RoleIdOf["admin"]>>] = 1]
    /\ user_sessions = {}
    /\ now = 0
    /\ req = [w \in Workers |-> IdleReq]

\* no store call of worker w's step fails
StoreHealthy(w) == req'[w].faults = 0

ConcurrentNext ==
    \E w \in Workers :
        \/ LoadUserFromTokenNoToken(w)
        \/ LoadUserFromTokenVerified(w) /\ req'[w].keycloakRoles \in ConcurrentClaims
        \/ LookupUser(w) /\ StoreHealthy(w)
        \/ RemoveStep(w) /\ StoreHealthy(w)
        \/ RemoveDone(w)
        \/ AssignStep(w) /\ StoreHealthy(w)
        \/ AssignDefault(w) /\ StoreHealthy(w)
        \/ ReloadUser(w) /\ StoreHealthy(w)
        \/ handleGetUser(w) /\ StoreHealthy(w)
        \/ Finish(w)

SpecConcurrent == ConcurrentInit /\ [][ConcurrentNext]_vars

\* Credentials: a request with any combination of id_token and session_token
\* cookies runs through a route or through an authenticator and a guard, and is
\* then sent again without cookies.  Session tok1 is unexpired, tok2 has expired,
\* tok3 was never issued.
SessionCookies == {"", "tok3"} \cup SessionTokens

Authenticators == {[kind |-> "LoadUserFromToken"], [kind |-> "SessionAuth"]}

CredentialsInit ==
    /\ users = TwoUsers
    /\ user_roles = [NoRoles EXCEPT ![<<1, RoleIdOf["admin"]>>] = 1]
    /\ now = MaxTime
    /\ user_sessions = { [session_token |-> "tok1", user_id |-> 1, expires_at |-> now + ClockStep],
                         [session_token |-> "tok2", user_id |-> 1, expires_at |-> now] }
    /\ req = [w \in Workers |-> IdleReq]
    /\ ctxUser = NoUser
    /\ \E idToken \in IdTokens, sessionToken \in SessionCookies :
          \/ \E rt \in DOMAIN RouteTable :
                /\ request = [method |-> rt[1], path |-> rt[2], idToken |-> idToken,
                              sessionToken |-> sessionToken]
                /\ chain = RouteTable[rt]
          \/ \E a \in Authenticators, c \in Chains :
                /\ request = [NoRequest EXCEPT !.idToken = idToken, !.sessionToken = sessionToken]
                /\ chain = <<a>> \o c
    /\ pos = 1
    /\ status = 0
    /\ served = 0
    /\ ran = <<>>
    /\ sent = <<>>

CredentialsNext ==
    \/ LoadUserFromToken
    \/ SessionAuth
    \/ RequireLogin
    \/ RequirePermission
    \/ RequireRole
    \/ RequireAnyRole
    \/ Handler
    \/ Resend

SpecCredentials == CredentialsInit /\ [][CredentialsNext]_vars

\* FirstLogin: two requests of a subject that has no user record yet are served
\* at once over a store in which nothing fails but the INSERT that finds the
\* record already there
FirstLoginClaims == {<<"admin">>}

FirstLoginInit == EmptyStore /\ NoPipeline

FirstLoginNext ==
    \E w \in Workers :
        \/ LoadUserFromTokenVerified(w) /\ req'[w].keycloakRoles \in FirstLoginClaims
        \/ LookupUser(w) /\ StoreHealthy(w)
        \/ CreateUserStep(w) /\ StoreHealthy(w)
        \/ RemoveStep(w) /\ StoreHealthy(w)
        \/ RemoveDone(w)
        \/ AssignStep(w) /\ StoreHealthy(w)
        \/ AssignDefault(w) /\ StoreHealthy(w)
        \/ ReloadUser(w) /\ StoreHealthy(w)
        \/ Finish(w)

SpecFirstLogin == FirstLoginInit /\ [][FirstLoginNext]_vars

\* Stack: a request with some user (or none) attached runs through up to
\* MaxChain guards stacked in front of the handler, over a store whose role
\* assignments need not be the ones the attached user was loaded with
MaxChain == 3

StackGuards ==
    RouteGuards
    \cup { [kind |-> "RequireRole", roleName |-> r] : r \in {"admin", "viewer"} }
    \cup { [kind |-> "RequirePermission", permission |-> p] : p \in {"properties.read", "users.delete"} }

StackInit ==
    /\ users = TwoUsers
    /\ user_roles \in {NoRoles, [NoRoles EXCEPT ![<<1, RoleIdOf["admin"]>>] = 1]}
    /\ user_sessions = {[session_token |-> "tok1", user_id |-> 1, expires_at |-> SessionTTL]}
    /\ now = 0
    /\ req = [w \in Workers |-> IdleReq]
    /\ ctxUser \in StoredUsers \cup {NoUser}
    /\ chain \in SeqsUpTo(StackGuards, MaxChain)
    /\ pos = 1
    /\ status = 0
    /\ served = 0
    /\ ran = <<>>
    /\ request = NoRequest
    /\ sent = <<>>

StackNext ==
    \/ RequirePermission
    \/ RequireRole
    \/ RequireAnyRole
    \/ Handler

SpecStack == StackInit /\ [][StackNext]_vars

(***************************************************************************)
(* Properties                                                              *)
(***************************************************************************)
\* worker w's request came with a verified token and its sync has run to the end
SyncCompleted(w) ==
    /\ req[w].path = "token"
    /\ req[w].pc \in {"reload", "done", "panic"}
    /\ req[w].pc = "done" => (req[w].ctx # NoUser /\ req[w].ctx.ID # 0)

\* the id of the user worker w's sync was run for
SyncedUser(w) == (CHOOSE u \in users : u.keycloak_id = req[w].sub).id

\* C1: after a sync in which no store call failed, for realm roles that map to at
\* least one application role, the stored roles of the user are exactly the mapped
\* roles, whatever the user held before
C1_SyncMirrorsClaims ==
    \A w \in Workers :
        (/\ SyncCompleted(w)
         /\ ~req[w].faulted
         /\ MappedRoles(req[w].keycloakRoles) # {})
        => StoredRoles(SyncedUser(w)) = MappedRoles(req[w].keycloakRoles)

\* a sync without failures has completed for a user who held a role the claims lack
C1_Witness ==
    \E w \in Workers :
        /\ SyncCompleted(w)
        /\ req[w].pc = "done"
        /\ ~req[w].faulted
        /\ req[w].stale
        /\ MappedRoles(req[w].keycloakRoles) # {}
        /\ StoredRoles(SyncedUser(w)) = MappedRoles(req[w].keycloakRoles)

\* C2: a user the federated path attaches to the request context holds at least
\* one role
C2_AttachedUserHasRole ==
    \A w \in Workers :
        (req[w].path = "token" /\ req[w].ctx # NoUser) => Len(req[w].ctx.Roles) >= 1

\* C3: after a sync in which no store call failed, for realm roles that are empty
\* or all outside the mapping table, the stored roles of the user are exactly
\* {tenant}
C3_DefaultTenant ==
    \A w \in Workers :
        (/\ SyncCompleted(w)
         /\ ~req[w].faulted
         /\ \A i \in 1..Len(req[w].keycloakRoles) :
               req[w].keycloakRoles[i] \notin {"admin", "property_manager", "tenant", "viewer"})
        => StoredRoles(SyncedUser(w)) = {"tenant"}

\* a sync without failures has completed for claims with only an unmapped role,
\* for a user who held other roles before
C3_Witness ==
    \E w \in Workers :
        /\ SyncCompleted(w)
        /\ req[w].pc = "done"
        /\ ~req[w].faulted
        /\ req[w].stale
        /\ req[w].keycloakRoles = <<"unmapped_role">>
        /\ StoredRoles(SyncedUser(w)) = {"tenant"}

\* the rule as stated: a literal match, or a wildcard r.* and a permission that
\* starts with r followed by a dot
HoldsLiterallyOrByDottedPrefix(u, permission) ==
    \E i \in 1..Len(u.Roles) :
        \E j \in 1..Len(u.Roles[i].Permissions) :
            LET perm == u.Roles[i].Permissions[j] IN
            \/ perm = permission
            \/ /\ HasSuffix(perm, ".*")
               /\ HasPrefix(permission, TrimSuffix(perm, ".*") \o ".")

\* C4: HasPermission(p) is true exactly when some role holds p literally or holds
\* a wildcard r.* with p starting with r followed by a dot
C4_HasPermissionIffDottedPrefix ==
    \A k \in 1..Len(ran) :
        (ran[k].guard.kind = "RequirePermission" /\ ctxUser # NoUser)
        => ((ran[k].outcome = PassToNext)
              <=> HoldsLiterallyOrByDottedPrefix(ctxUser, ran[k].guard.permission))

\* C5: RequirePermission(perm) answers 401 without a user, 403 with a user that
\* lacks perm (by HasPermission), and otherwise calls the next handler; after a
\* rejection nothing behind the guard runs, and no user never means 403
C5_RequirePermission ==
    \A k \in 1..Len(ran) :
        ran[k].guard.kind = "RequirePermission"
        => /\ ctxUser = NoUser => ran[k].outcome = StatusUnauthorized
           /\ (ctxUser # NoUser /\ ~HasPermission(ctxUser, ran[k].guard.permission))
                 => ran[k].outcome = StatusForbidden
           /\ (ctxUser # NoUser /\ HasPermission(ctxUser, ran[k].guard.permission))
                 => (ran[k].outcome = PassToNext /\ pos > k)
           /\ ran[k].outcome # PassToNext
                 => (status = ran[k].outcome /\ served = 0 /\ Len(ran) = k)

\* RequirePermission has rejected a user that lacks the permission
C5_Witness ==
    /\ Len(ran) = 1
    /\ ran[1].guard.kind = "RequirePermission"
    /\ ctxUser # NoUser
    /\ status = StatusForbidden
    /\ served = 0

\* the role names of the roles a user holds
RoleNamesOf(u) == {u.Roles[i].Name : i \in 1..Len(u.Roles)}

\* the elements of a sequence
Range(sq) == {sq[i] : i \in 1..Len(sq)}

ViewerOnly == [ID |-> 1, Roles |-> <<RoleRecord("viewer")>>]

\* C6: RequireAnyRole(r1..rn) calls the next handler exactly when a user is
\* attached and holds one of the names; an attached user holding none gets 403,
\* no user gets 401
C6_RequireAnyRole ==
    \A k \in 1..Len(ran) :
        ran[k].guard.kind = "RequireAnyRole"
        => LET names == Range(ran[k].guard.roleNames) IN
           /\ (ran[k].outcome = PassToNext)
                 <=> (ctxUser # NoUser /\ RoleNamesOf(ctxUser) \cap names # {})
           /\ (ctxUser # NoUser /\ RoleNamesOf(ctxUser) \cap names = {})
                 => (ran[k].outcome = StatusForbidden /\ status = StatusForbidden /\ served = 0)
           /\ ctxUser = NoUser
                 => (ran[k].outcome = StatusUnauthorized /\ status = StatusUnauthorized
                     /\ served = 0)

\* a user with only viewer was rejected with 403 by RequireAnyRole(admin, property_manager)
C6_Witness ==
    /\ ctxUser = ViewerOnly
    /\ chain = <<[kind |-> "RequireAnyRole", roleNames |-> <<"admin", "property_manager">>]>>
    /\ Len(ran) = 1
    /\ status = StatusForbidden
    /\ served = 0

\* C7: RequireRole(r) gives the outcome RequireAnyRole(r) gives: 401 without a
\* user, 403 when no role of the user is named exactly r, otherwise the next handler
C7_RequireRoleAsAnyRole ==
    \A k \in 1..Len(ran) :
        /\ ran[k].guard.kind = "RequireRole"
              => /\ ran[k].outcome = RequireAnyRoleOutcome(<<ran[k].guard.roleName>>)
                 /\ ran[k].outcome =
                       IF ctxUser = NoUser THEN StatusUnauthorized
                       ELSE IF ran[k].guard.roleName \notin RoleNamesOf(ctxUser)
                         THEN StatusForbidden
                       ELSE PassToNext
        /\ (ran[k].guard.kind = "RequireAnyRole" /\ Len(ran[k].guard.roleNames) = 1)
              => ran[k].outcome = RequireRoleOutcome(ran[k].guard.roleNames[1])

\* RequireRole has rejected a user whose role name only starts with the required one
C7_Witness ==
    /\ ctxUser = ViewerOnly
    /\ chain = <<[kind |-> "RequireRole", roleName |-> "view"]>>
    /\ Len(ran) = 1
    /\ status = StatusForbidden
    /\ served = 0

\* C8: a stored session whose expiry has come resolves to nothing, and the session
\* path attaches a user only after a lookup that found a session for the presented
\* token with the lookup time before its expires_at; it calls next either way
C8_ExpiredNeverResolves ==
    /\ \A x \in user_sessions :
          now >= x.expires_at => GetUserSession(x.session_token, FALSE).err # ErrNone
    /\ \A w \in Workers :
          req[w].path = "session"
          => /\ (req[w].ctx # NoUser \/ req[w].pc = "load")
                   => (req[w].found /\ req[w].lookedUpAt < req[w].expiresAt)
             /\ req[w].pc = "done" => req[w].nextCalls = 1

\* a request presented the token of a stored session at or after its expiry and
\* went on without a user
C8_Witness ==
    \E w \in Workers :
        /\ req[w].path = "session"
        /\ req[w].pc = "done"
        /\ ~req[w].faulted
        /\ req[w].ctx = NoUser
        /\ req[w].nextCalls = 1
        /\ \E x \in user_sessions :
              x.session_token = req[w].token /\ x.expires_at = req[w].lookedUpAt

\* how often role name n occurs in a role list
Occurrences(roles, n) == Cardinality({i \in 1..Len(roles) : roles[i].Name = n})

C9_AtMostOnce ==
    /\ \A p \in UserIds \X RoleIds : user_roles[p] <= 1
    /\ \A w \in Workers :
          (/\ req[w].path = "assignRole"
           /\ req[w].pc = "done"
           /\ req[w].err \in {ErrNone, ErrDuplicate})
          => /\ user_roles[<<req[w].userID, req[w].roleID>>] = 1
             /\ Occurrences(GetUserRoles(req[w].userID), RoleNameOf[req[w].roleID]) = 1
             /\ req[w].assignedBefore
                   => (req[w].err = ErrDuplicate /\ req[w].status = StatusConflict)

C9_SecondAssignChangesNothing ==
    \A w \in Workers :
        (/\ req[w].pc = "idle"
         /\ req'[w].path = "assignRole"
         /\ req'[w].assignedBefore
         /\ req'[w].faults = 0)
        => (req'[w].err = ErrDuplicate /\ user_roles' = user_roles)

\* C9: a (user, role) pair is assigned at most once: AssignRole on an assigned pair
\* returns the duplicate conflict and changes nothing, and GetUserRoles right after
\* an AssignRole holds the role exactly once
C9_UniqueAssignment == []C9_AtMostOnce /\ [][C9_SecondAssignChangesNothing]_vars

\* AssignRole was called on a pair that was assigned already and answered 409
C9_Witness ==
    \E w \in Workers :
        /\ req[w].path = "assignRole"
        /\ req[w].pc = "done"
        /\ req[w].assignedBefore
        /\ req[w].status = StatusConflict
        /\ user_roles[<<req[w].userID, req[w].roleID>>] = 1

C10_RemoveStep ==
    \A w \in Workers :
        (/\ req[w].pc = "idle"
         /\ req'[w].path = "removeRole"
         /\ req'[w].faults = 0)
        => /\ req'[w].err = ErrNone
           /\ req'[w].status = StatusOK
           /\ \A p \in UserIds \X RoleIds :
                 p # <<req'[w].userID, req'[w].roleID>> => user_roles'[p] = user_roles[p]
           /\ req'[w].roleID \in RoleIds => user_roles'[<<req'[w].userID, req'[w].roleID>>] = 0
           /\ ~req'[w].assignedBefore => user_roles' = user_roles

\* C10: RemoveRole(u, r) on a pair that is not assigned returns no error and
\* leaves the assignments as they are; on an assigned pair it removes that pair
\* and no other
C10_RemoveRoleIdempotent == [][C10_RemoveStep]_vars

\* RemoveRole was called on an unassigned pair while the user held another role and
\* another user held the same role, and returned no error
C10_Witness ==
    \E w \in Workers :
        /\ req[w].path = "removeRole"
        /\ req[w].pc = "done"
        /\ ~req[w].assignedBefore
        /\ req[w].err = ErrNone
        /\ req[w].roleID \in RoleIds
        /\ \E r \in RoleIds \ {req[w].roleID} : user_roles[<<req[w].userID, r>>] = 1
        /\ \E u \in UserIds \ {req[w].userID} : user_roles[<<u, req[w].roleID>>] = 1

\* what a sync without failures leaves for the claims: the mapped roles, or the
\* default role when nothing maps
ExpectedRoles(keycloakRoles) ==
    IF MappedRoles(keycloakRoles) = {} THEN {"tenant"} ELSE MappedRoles(keycloakRoles)

C11_FirstLogin ==
    /\ \A w \in Workers :
          (/\ req[w].path = "token"
           /\ req[w].created
           /\ req[w].pc = "done"
           /\ ~req[w].faulted)
          => /\ \E u \in users : /\ u.keycloak_id = req[w].sub
                                 /\ u.status = "active"
                                 /\ u.id = req[w].ctx.ID
             /\ RoleNamesOf(req[w].ctx) = ExpectedRoles(req[w].keycloakRoles)
             /\ Len(req[w].ctx.Roles) = Cardinality(RoleNamesOf(req[w].ctx))
             /\ (Range(req[w].keycloakRoles) = {"admin", "property_manager"}
                   => ~HasRole(req[w].ctx, "tenant"))
    /\ \A u1, u2 \in users : u1.keycloak_id = u2.keycloak_id => u1 = u2

C11_UsersStep ==
    users' # users
    => \E w \in Workers :
          /\ req[w].pc = "create"
          /\ \A u \in users : u.keycloak_id # req[w].sub
          /\ \E id \in UserIds :
                users' = users \cup {[id |-> id, keycloak_id |-> req[w].sub,
                                      status |-> "active"]}

C12_NextExactlyOnce ==
    \A w \in Workers :
        (req[w].path \in {"token", "session"} /\ req[w].pc \in {"done", "panic"})
        => (req[w].nextCalls = 1 /\ req[w].status = 0)

\* C13: assigning a role reports success, Conflict (409) for a pair that exists, and
\* for a dangling user or role id an outcome that is neither Conflict nor the
\* generic failure of other store errors
C13_DanglingIsNotFound ==
    \A w \in Workers :
        (req[w].path = "assignRole" /\ req[w].pc = "done")
        => /\ req[w].err = ErrNone => req[w].status = StatusOK
           /\ req[w].err = ErrDuplicate => req[w].status = StatusConflict
           /\ req[w].err = ErrForeignKey
                 => req[w].status \notin {StatusConflict, StatusInternalServerError}

\* the pipeline of the routed request has ended: a middleware answered or the
\* handler ran
RequestDone == pos = Len(chain) + 2

\* C14: an authenticated user whose only role is viewer reaches the handlers of
\* GET /maintenance, GET /properties and GET /tenants (200) and gets 403 on
\* GET /api/users and GET /admin/users
C14_ViewerRoutes ==
    (/\ request.idToken = "valid"
     /\ request.method = "GET"
     /\ ctxUser = ViewerOnly
     /\ RequestDone)
    => /\ request.path \in {"/maintenance", "/properties", "/tenants"}
             => (served = 1 /\ status = StatusOK)
       /\ request.path \in {"/api/users", "/admin/users"}
             => (served = 0 /\ status = StatusForbidden)

C16_EmptyOnlyMidSync ==
    /\ \A w \in Workers :
          (/\ req[w].path = "getUser"
           /\ req[w].pc = "done"
           /\ req[w].err = ErrNone
           /\ req[w].userID = 1
           /\ req[w].user.Roles = <<>>)
          => req[w].midSync
    /\ (\A v \in Workers : ~SyncInProgress(v, 1)) => StoredRoles(1) # {}

\* GetUserByID returned user 1 without roles while the other worker was inside the
\* sync of user 1 with claims [admin], having found the user with exactly admin
C16_Witness ==
    \E w \in Workers, v \in Workers :
        /\ w # v
        /\ req[w].path = "getUser"
        /\ req[w].pc = "done"
        /\ req[w].userID = 1
        /\ req[w].err = ErrNone
        /\ req[w].user.Roles = <<>>
        /\ req[w].midSync
        /\ SyncInProgress(v, 1)
        /\ req[v].keycloakRoles = <<"admin">>
        /\ RoleNamesOf(req[v].user) = {"admin"}

C17_RepeatStep ==
    \A w \in Workers :
        (req[w].path = "token" /\ req[w].repeat /\ req'[w] # req[w])
        => user_roles' = user_roles

\* C17: a request of an existing user whose claims an earlier request has already
\* processed writes nothing to the role store
C17_NoWritesOnRepeat == [][C17_RepeatStep]_vars

\* C18: whichever store calls fail during a sync, the roles the user holds after it
\* are a subset of the roles a sync without failures leaves for the same claims
C18_FailuresOnlyLoseRoles ==
    \A w \in Workers :
        SyncCompleted(w)
        => StoredRoles(SyncedUser(w)) \subseteq ExpectedRoles(req[w].keycloakRoles)

C19_SyncRanThrough ==
    \A w \in Workers :
        SyncCompleted(w)
        => /\ req[w].toRemove = {}
           /\ req[w].i = Len(req[w].keycloakRoles) + 1
           /\ req[w].pc = "done"
                 => /\ req[w].nextCalls = 1
                    /\ req[w].ctx = [ID |-> SyncedUser(w), Roles |-> GetUserRoles(SyncedUser(w))]

C19_SyncStep ==
    \A w \in Workers :
        (req[w].path = "token" /\ req'[w] # req[w])
        => /\ (req[w].pc = "remove" /\ req[w].toRemove # {})
                 => /\ req'[w].pc = "remove"
                    /\ \E appRole \in req[w].toRemove :
                          req'[w].toRemove = req[w].toRemove \ {appRole}
           /\ (req[w].pc = "assign" /\ req[w].i <= Len(req[w].keycloakRoles))
                 => /\ req'[w].pc = "assign"
                    /\ req'[w].i = req[w].i + 1
           /\ (req[w].pc = "assign" /\ req[w].i > Len(req[w].keycloakRoles))
                 => req'[w].pc = "reload"
           /\ (req[w].pc = "reload" /\ req'[w].faults = req[w].faults)
                 => /\ req'[w].pc = "done"
                    /\ req'[w].nextCalls = 1
                    /\ req'[w].ctx # NoUser

\* C19: a failing GetRoleByName, RemoveRole or AssignRole does not stop the sync:
\* each iteration of the removal loop and of the assignment loop moves on to the
\* next role whether its calls failed or not, a completed sync has gone through
\* every role of the mapping and of the claims, and unless the reload itself fails
\* the request goes on to the next handler with the reloaded user attached
C19_SyncContinuesAfterFailure == []C19_SyncRanThrough /\ [][C19_SyncStep]_vars

\* an existing user's request is done with the reloaded user attached after
\* exactly one store call failed, inside the sync
C19_Witness ==
    \E w \in Workers :
        /\ SyncCompleted(w)
        /\ req[w].pc = "done"
        /\ ~req[w].created
        /\ req[w].faults = 1
        /\ req[w].nextCalls = 1
        /\ req[w].ctx.ID = SyncedUser(w)
        /\ Len(req[w].keycloakRoles) = MaxRealmRoles

\* the realm-role list names some mapped role more than once
NamesMappedRoleTwice(keycloakRoles) ==
    \E i, j \in 1..Len(keycloakRoles) :
        i < j /\ keycloakRoles[i] = keycloakRoles[j] /\ keycloakRoles[i] \in DOMAIN roleMapping

C20_AfterSync ==
    \A w \in Workers :
        (/\ SyncCompleted(w)
         /\ req[w].faults = 0
         /\ NamesMappedRoleTwice(req[w].keycloakRoles))
        => /\ req[w].faulted
           /\ req[w].assignedCount = Cardinality(MappedRoles(req[w].keycloakRoles))
           /\ StoredRoles(SyncedUser(w)) = MappedRoles(req[w].keycloakRoles)
           /\ \A n \in MappedRoles(req[w].keycloakRoles) :
                 /\ user_roles[<<SyncedUser(w), RoleIdOf[n]>>] = 1
                 /\ Occurrences(GetUserRoles(SyncedUser(w)), n) = 1

C20_RepeatedAssignStep ==
    \A w \in Workers :
        (/\ req[w].path = "token"
         /\ req[w].pc = "assign"
         /\ req'[w] # req[w]
         /\ req'[w].faults = req[w].faults
         /\ req[w].i <= Len(req[w].keycloakRoles)
         /\ \E k \in 1..(req[w].i - 1) : req[w].keycloakRoles[k] = req[w].keycloakRoles[req[w].i]
         /\ req[w].keycloakRoles[req[w].i] \in DOMAIN roleMapping
         /\ user_roles[<<req[w].user.ID, RoleIdOf[roleMapping[req[w].keycloakRoles[req[w].i]]]>>] > 0)
        => /\ req'[w].faulted
           /\ user_roles' = user_roles
           /\ req'[w].assignedCount = req[w].assignedCount
           /\ req'[w].pc = "assign"
           /\ req'[w].i = req[w].i + 1

\* C20: when the realm roles name a mapped role more than once, the repeated
\* AssignRole fails with the duplicate conflict and changes nothing, the sync goes
\* on, and after it the user holds each mapped role exactly once and no default
\* tenant role beyond the claims
C20_DuplicateClaimAssignedOnce == []C20_AfterSync /\ [][C20_RepeatedAssignStep]_vars

\* a sync for realm roles [admin, admin] is done for a user who held other roles:
\* the second AssignRole failed and the user holds exactly admin, once
C20_Witness ==
    \E w \in Workers :
        /\ SyncCompleted(w)
        /\ req[w].pc = "done"
        /\ req[w].faults = 0
        /\ req[w].faulted
        /\ req[w].stale
        /\ req[w].keycloakRoles = <<"admin", "admin">>
        /\ StoredRoles(SyncedUser(w)) = {"admin"}
        /\ user_roles[<<SyncedUser(w), RoleIdOf["admin"]>>] = 1


\* the token names a stored session that has not expired
Unexpired(token) == \E x \in user_sessions : x.session_token = token /\ x.expires_at > now

C22_SweepStep ==
    CleanupExpiredSessions
    => /\ \A x \in user_sessions : now < x.expires_at => x \in user_sessions'
       /\ req' = req
       /\ \A token \in SessionTokens :
             /\ GetUserSession(token, FALSE)' = GetUserSession(token, FALSE)
             /\ Unexpired(token) <=> GetUserSession(token, FALSE)'.err = ErrNone
             /\ Unexpired(token) <=> GetUserSession(token, FALSE).err = ErrNone

C22_SweepKeepsLookups == [][C22_SweepStep]_vars

\* a request has looked up an unexpired session and not yet loaded its user,
\* while the table also holds an expired session for the sweep to delete
C22_Witness ==
    \E w \in SerialWorkers :
        /\ req[w].pc = "load"
        /\ Unexpired(req[w].token)
        /\ \E x \in user_sessions : x.expires_at <= now

\* C23: once handleLogout has served a request with session token t, no session
\* row carries t, so that no later lookup of t finds a session, and the rows of
\* other tokens are the ones there were
C23_LogoutStep ==
    \A w \in Workers :
        (req[w].pc = "idle" /\ req'[w].path = "logout" /\ req'[w].token # "")
        => /\ \A x \in user_sessions' : x.session_token # req'[w].token
           /\ \A x \in user_sessions : x.session_token # req'[w].token => x \in user_sessions'
           /\ user_sessions' \subseteq user_sessions

C23_LogoutDeletesSession == [][C23_LogoutStep]_vars

\* the attached user u has what guard g asks for
Holds(u, g) ==
    CASE g.kind = "RequirePermission" -> HasPermission(u, g.permission)
      [] g.kind = "RequireRole" -> g.roleName \in RoleNamesOf(u)
      [] g.kind = "RequireAnyRole" -> RoleNamesOf(u) \cap Range(g.roleNames) # {}

\* guard g lets a request with user u (or none) through
Passes(u, g) == u # NoUser /\ Holds(u, g)

\* what guard g answers to a request with user u (or none)
Decision(u, g) ==
    IF u = NoUser THEN StatusUnauthorized
    ELSE IF ~Holds(u, g) THEN StatusForbidden
    ELSE PassToNext

\* C24: with guards stacked in one chain the handler runs exactly when every
\* guard passes for the attached user; otherwise the response is the 401 or 403
\* of the first guard in chain order that fails and nothing after it has run
C24_StackedGuards ==
    LET failing == {k \in 1..Len(chain) : ~Passes(ctxUser, chain[k])} IN
    /\ served > 0 => failing = {}
    /\ served <= 1
    /\ \A k \in 1..Len(ran) : ran[k].guard = chain[k] /\ \A j \in failing : k <= j
    /\ (RequestDone /\ failing = {})
          => (served = 1 /\ status = StatusOK /\ Len(ran) = Len(chain))
    /\ (RequestDone /\ failing # {})
          => LET first == CHOOSE k \in failing : \A j \in failing : k <= j IN
             /\ served = 0
             /\ Len(ran) = first
             /\ status = Decision(ctxUser, chain[first])
             /\ status \in {StatusUnauthorized, StatusForbidden}

\* a viewer passed the first of three guards and was answered 403 by the second;
\* the third, which the viewer would pass, and the handler did not run
C24_Witness ==
    /\ ctxUser = ViewerOnly
    /\ chain = <<[kind |-> "RequireAnyRole", roleNames |-> <<"admin", "property_manager", "viewer">>],
                 [kind |-> "RequireRole", roleName |-> "admin"],
                 [kind |-> "RequirePermission", permission |-> "properties.read"]>>
    /\ RequestDone
    /\ Len(ran) = 2
    /\ status = StatusForbidden
    /\ served = 0

\* C25: a guard, passing or rejecting, leaves users, role assignments, sessions
\* and the attached user as they are, and what it answers is fixed by its
\* arguments and the attached user, whatever the store holds
C25_GuardStep ==
    pos \in 1..Len(chain)
    => /\ UNCHANGED <<users, user_roles, user_sessions, now, req, ctxUser>>
       /\ ran' = Append(ran, [guard |-> chain[pos], outcome |-> Decision(ctxUser, chain[pos])])
       /\ status' = IF Decision(ctxUser, chain[pos]) = PassToNext
                      THEN status ELSE Decision(ctxUser, chain[pos])

C25_GuardsOnlyRead == [][C25_GuardStep]_vars

\* RequireRole(admin) passed for an attached user holding admin although the
\* store assigns user 1 no role, and RequireRole(viewer) then rejected
C25_Witness ==
    /\ user_roles = NoRoles
    /\ user_sessions # {}
    /\ ctxUser # NoUser
    /\ Len(ran) = 2
    /\ ran[1].guard = [kind |-> "RequireRole", roleName |-> "admin"]
    /\ ran[1].outcome = PassToNext
    /\ ran[2].guard = [kind |-> "RequireRole", roleName |-> "viewer"]
    /\ ran[2].outcome = StatusForbidden

\* C26: once the syncs of two requests of user 1 that both carry the realm roles
\* [admin] have completed over a store that does not fail, user 1 holds exactly
\* the mapped roles {admin}, and no default tenant
C26_SameClaimsConverge ==
    (\A w \in Workers :
        /\ SyncCompleted(w)
        /\ req[w].sub = "abc123"
        /\ req[w].keycloakRoles = <<"admin">>)
    => /\ StoredRoles(1) = MappedRoles(<<"admin">>)
       /\ DefaultRoleName \notin StoredRoles(1)

\* C27: a user LoadUserFromToken has attached is a row of users, and its role
\* list is the one the store holds for that row after the sync
C27_AttachedIsPersisted ==
    \A w \in Workers :
        (req[w].path = "token" /\ req[w].pc = "done" /\ req[w].ctx # NoUser)
        => /\ req[w].ctx.ID \in ExistingIds
           /\ req[w].ctx.Roles = GetUserRoles(req[w].ctx.ID)

\* C28: once the syncs of two requests of user 1 with different realm roles have
\* completed over a store that does not fail, user 1 holds the mapped roles of
\* one of the two requests, not a mixture of both
C28_DifferentClaimsPickOne ==
    (\A w \in Workers :
        /\ SyncCompleted(w)
        /\ req[w].sub = "abc123"
        /\ req[w].keycloakRoles = <<(<<"admin">>), (<<"viewer">>)>>[w])
    => StoredRoles(1) \in {ExpectedRoles(<<"admin">>), ExpectedRoles(<<"viewer">>)}

\* the user records with external id sub
RecordsOf(sub) == {u \in users : u.keycloak_id = sub}

C29_OneRecord ==
    /\ \A sub \in Subjects : Cardinality(RecordsOf(sub)) <= 1
    /\ \A w \in Workers :
          (req[w].path = "token" /\ req[w].pc \notin {"idle", "lookup", "create"})
          => Cardinality(RecordsOf(req[w].sub)) = 1
    /\ \A w \in Workers :
          (req[w].path = "token" /\ req[w].pc \in {"remove", "assign", "reload"})
          => req[w].user.ID = SyncedUser(w)
    /\ \A w \in Workers :
          (req[w].path = "token" /\ req[w].pc = "done" /\ req[w].ctx # NoUser /\ req[w].ctx.ID # 0)
          => req[w].ctx.ID = SyncedUser(w)

C29_LookupStep ==
    \A w \in Workers :
        (req[w].pc = "lookup" /\ req'[w] # req[w] /\ RecordsOf(req[w].sub) # {})
        => /\ req'[w].pc = "remove"
           /\ req'[w].user.ID = SyncedUser(w)
           /\ ~req'[w].created
           /\ users' = users

C30_OnlyActiveAttached ==
    \A w \in Workers :
        (/\ req[w].path \in {"token", "session"}
         /\ req[w].pc = "done"
         /\ req[w].ctx # NoUser
         /\ req[w].ctx.ID \in ExistingIds)
        => UserRow(req[w].ctx.ID).status = "active"
====
